---- MODULE Spec2Model ----
(***************************************************************************)
(* Model of areusch/statement-miner: the two entry points src/extract.py   *)
(* (LayoutVisitorDriver + Amex/Chase detail extractors + Main) and         *)
(* src/chase.py (ChaseConverter + Main).                                   *)
(*                                                                         *)
(* Texts are sequences of one-character strings, so that the regular       *)
(* expressions, str.strip, str.split, time.strptime and decimal.Decimal    *)
(* are computed character by character, as the Python code computes them.  *)
(***************************************************************************)
EXTENDS Integers, Sequences, FiniteSets, TLC

(***************************************************************************)
(* Bounds of the model.                                                    *)
(***************************************************************************)
\* Documents on the command line of one run.
MaxDocs == 2
\* Pages of one document.
MaxPages == 2
\* Text boxes the layout engine delivers during one run of extract.py; a
\* run of chase.py gets one more, for the page header its converter needs.
MaxBoxes == 3
\* Lines of a text box handed to the classifiers alone.
MaxFragments == 3

(***************************************************************************)
(* Python values.                                                          *)
(***************************************************************************)
\* Optional values: None is the empty tuple, a value v is <<v>>.
None == <<>>
Some(v) == <<v>>
IsNone(o) == o = <<>>

Digits == {"0", "1", "2", "3", "4", "5", "6", "7", "8", "9"}
IsDigit(c) == c \in Digits
DigitVal(c) ==
  CASE c = "0" -> 0 [] c = "1" -> 1 [] c = "2" -> 2 [] c = "3" -> 3
    [] c = "4" -> 4 [] c = "5" -> 5 [] c = "6" -> 6 [] c = "7" -> 7
    [] c = "8" -> 8 [] c = "9" -> 9
Upper ==
  {"A", "B", "C", "D", "E", "F", "G", "H", "I", "J", "K", "L", "M",
   "N", "O", "P", "Q", "R", "S", "T", "U", "V", "W", "X", "Y", "Z"}
Lower ==
  {"a", "b", "c", "d", "e", "f", "g", "h", "i", "j", "k", "l", "m",
   "n", "o", "p", "q", "r", "s", "t", "u", "v", "w", "x", "y", "z"}
IsAlpha(c) == c \in Upper \cup Lower

\* s[a..b] with Python's clamping; 1-based, inclusive.
Slice(s, a, b) == IF a > b THEN <<>> ELSE SubSeq(s, a, b)

\* The value of a non-empty all-digit text.
RECURSIVE NumVal(_)
NumVal(s) ==
  IF s = <<>> THEN 0
  ELSE 10 * NumVal(Slice(s, 1, Len(s) - 1)) + DigitVal(s[Len(s)])

AllDigits(s) == \A k \in 1..Len(s) : IsDigit(s[k])

\* str.strip(chars): drop leading and trailing characters that are in chars.
RECURSIVE LStrip(_, _)
LStrip(s, chars) ==
  IF s # <<>> /\ s[1] \in chars THEN LStrip(Tail(s), chars) ELSE s
RECURSIVE RStrip(_, _)
RStrip(s, chars) ==
  IF s # <<>> /\ s[Len(s)] \in chars
  THEN RStrip(Slice(s, 1, Len(s) - 1), chars) ELSE s
Strip(s, chars) == RStrip(LStrip(s, chars), chars)

\* sub in s
Contains(s, sub) ==
  \E k \in 1..(Len(s) - Len(sub) + 1) : SubSeq(s, k, k + Len(sub) - 1) = sub

\* Index of the first occurrence of character c in s, 0 when there is none.
FirstIndex(s, c) ==
  IF \E k \in 1..Len(s) : s[k] = c
  THEN CHOOSE k \in 1..Len(s) : s[k] = c /\ \A j \in 1..(k - 1) : s[j] # c
  ELSE 0

\* s.split(c, 1): one part when c does not occur, else two.
Split1(s, c) ==
  LET k == FirstIndex(s, c)
  IN  IF k = 0 THEN <<s>>
      ELSE <<Slice(s, 1, k - 1), Slice(s, k + 1, Len(s))>>

\* re.sub('[^\d]', '', s)
RECURSIVE OnlyDigits(_)
OnlyDigits(s) ==
  IF s = <<>> THEN <<>>
  ELSE IF IsDigit(s[1]) THEN <<s[1]>> \o OnlyDigits(Tail(s))
  ELSE OnlyDigits(Tail(s))

\* s[-n:]
LastN(s, n) == IF Len(s) <= n THEN s ELSE SubSeq(s, Len(s) - n + 1, Len(s))

(***************************************************************************)
(* re.match: a pattern is a sequence of tokens, matched from the start of  *)
(* the text (not anchored at its end), with backtracking.                  *)
(*   lit c   the character c          opt c    c?                          *)
(*   dig     [0-9] or \d              digs     [0-9]*                      *)
(*   alpha   [A-Za-z]                 any      . (no newline)              *)
(***************************************************************************)
Lit(c) == [kind |-> "lit", ch |-> c]
Opt(c) == [kind |-> "opt", ch |-> c]
Dig == [kind |-> "dig", ch |-> ""]
Digs == [kind |-> "digs", ch |-> ""]
Alpha == [kind |-> "alpha", ch |-> ""]
AnyChar == [kind |-> "any", ch |-> ""]

RECURSIVE LitSeq(_)
LitSeq(s) == IF s = <<>> THEN <<>> ELSE <<Lit(s[1])>> \o LitSeq(Tail(s))

RECURSIVE MatchFrom(_, _, _, _)
MatchFrom(p, j, t, i) ==
  IF j > Len(p) THEN TRUE
  ELSE
    LET tok == p[j]
        has == i <= Len(t)
    IN  CASE tok.kind = "lit" ->
               has /\ t[i] = tok.ch /\ MatchFrom(p, j + 1, t, i + 1)
          [] tok.kind = "opt" ->
               \/ has /\ t[i] = tok.ch /\ MatchFrom(p, j + 1, t, i + 1)
               \/ MatchFrom(p, j + 1, t, i)
          [] tok.kind = "dig" ->
               has /\ IsDigit(t[i]) /\ MatchFrom(p, j + 1, t, i + 1)
          [] tok.kind = "digs" ->
               \/ has /\ IsDigit(t[i]) /\ MatchFrom(p, j, t, i + 1)
               \/ MatchFrom(p, j + 1, t, i)
          [] tok.kind = "alpha" ->
               has /\ IsAlpha(t[i]) /\ MatchFrom(p, j + 1, t, i + 1)
          [] tok.kind = "any" ->
               has /\ t[i] # "\n" /\ MatchFrom(p, j + 1, t, i + 1)

ReMatch(p, t) == MatchFrom(p, 1, t, 1)

(***************************************************************************)
(* time.strptime, datetime.datetime and decimal.Decimal.                   *)
(***************************************************************************)
Whitespace == {" ", "\n", "\t"}

IsLeap(y) == (y % 4 = 0 /\ y % 100 # 0) \/ y % 400 = 0

DaysIn(m, y) ==
  IF m = 2 THEN (IF IsLeap(y) THEN 29 ELSE 28)
  ELSE IF m \in {4, 6, 9, 11} THEN 30 ELSE 31

\* A parse result: ok is FALSE when Python raises ValueError.
BadDate == [ok |-> FALSE, year |-> 0, month |-> 0, day |-> 0]
GoodDate(y, m, d) == [ok |-> TRUE, year |-> y, month |-> m, day |-> d]

\* datetime.datetime(year, month, day, 0, 0, 0)
Datetime(y, m, d) ==
  IF y \in 1..9999 /\ m \in 1..12 /\ d \in 1..DaysIn(m, y)
  THEN GoodDate(y, m, d) ELSE BadDate

\* time.strptime(t, '%m/%d' + tail): tail is the rest of the format, either
\* empty or one whitespace directive, which matches one or more whitespace
\* characters. The year defaults to 1900; 02/29 is accepted (the library
\* parses it in the leap year 1904 and reports 1900).
StrptimeMD(t, wsTail) ==
  LET rest == Slice(t, 6, Len(t))
      m == NumVal(Slice(t, 1, 2))
      d == NumVal(Slice(t, 4, 5))
  IN  IF /\ Len(t) >= 5
         /\ AllDigits(Slice(t, 1, 2)) /\ t[3] = "/" /\ AllDigits(Slice(t, 4, 5))
         /\ IF wsTail THEN rest # <<>> /\ \A k \in 1..Len(rest) : rest[k] \in Whitespace
                      ELSE rest = <<>>
         /\ m \in 1..12
         /\ d \in 1..DaysIn(m, IF m = 2 /\ d = 29 THEN 1904 ELSE 1900)
      THEN GoodDate(1900, m, d) ELSE BadDate

\* time.strptime(t, '%m/%d/%y\n'): %y is a two-digit year, 00-68 in 20xx
\* and 69-99 in 19xx.
StrptimeMDY(t) ==
  LET rest == Slice(t, 9, Len(t))
      m == NumVal(Slice(t, 1, 2))
      d == NumVal(Slice(t, 4, 5))
      yy == NumVal(Slice(t, 7, 8))
      y == IF yy <= 68 THEN 2000 + yy ELSE 1900 + yy
  IN  IF /\ Len(t) >= 9
         /\ AllDigits(Slice(t, 1, 2)) /\ t[3] = "/" /\ AllDigits(Slice(t, 4, 5))
         /\ t[6] = "/" /\ AllDigits(Slice(t, 7, 8))
         /\ rest # <<>> /\ \A k \in 1..Len(rest) : rest[k] \in Whitespace
         /\ m \in 1..12
         /\ d \in 1..DaysIn(m, y)
      THEN GoodDate(y, m, d) ELSE BadDate

\* datetime.datetime.strptime(t, '%Y-%m-%d')
StrptimeYMD(t) ==
  LET y == NumVal(Slice(t, 1, 4))
      m == NumVal(Slice(t, 6, 7))
      d == NumVal(Slice(t, 9, 10))
  IN  IF /\ Len(t) = 10
         /\ AllDigits(Slice(t, 1, 4)) /\ t[5] = "-" /\ AllDigits(Slice(t, 6, 7))
         /\ t[8] = "-" /\ AllDigits(Slice(t, 9, 10))
         /\ y >= 1 /\ m \in 1..12 /\ d \in 1..DaysIn(m, y)
      THEN GoodDate(y, m, d) ELSE BadDate

\* %b: the abbreviated month names (matched without regard to case; the
\* file names of the model use the capitalised form).
MonthAbbr(s) ==
  CASE s = <<"J", "a", "n">> -> 1 [] s = <<"F", "e", "b">> -> 2
    [] s = <<"M", "a", "r">> -> 3 [] s = <<"A", "p", "r">> -> 4
    [] s = <<"M", "a", "y">> -> 5 [] s = <<"J", "u", "n">> -> 6
    [] s = <<"J", "u", "l">> -> 7 [] s = <<"A", "u", "g">> -> 8
    [] s = <<"S", "e", "p">> -> 9 [] s = <<"O", "c", "t">> -> 10
    [] s = <<"N", "o", "v">> -> 11 [] s = <<"D", "e", "c">> -> 12
    [] OTHER -> 0

\* datetime.datetime.strptime(t, '%b %Y'): the day defaults to 1.
StrptimeBY(t) ==
  LET m == MonthAbbr(Slice(t, 1, 3))
      y == NumVal(Slice(t, 5, 8))
  IN  IF /\ Len(t) = 8 /\ t[4] = " " /\ AllDigits(Slice(t, 5, 8))
         /\ m # 0 /\ y >= 1
      THEN GoodDate(y, m, 1) ELSE BadDate

\* decimal.Decimal(t) for the texts the extractors hand it: an optional
\* sign, digits with at most one point and at least one digit. The value is
\* sign * coeff * 10^exp; ok is FALSE when Python raises InvalidOperation.
BadDecimal == [ok |-> FALSE, neg |-> FALSE, coeff |-> 0, exp |-> 0]
Decimal(t) ==
  LET neg == t # <<>> /\ t[1] = "-"
      body == IF t # <<>> /\ t[1] \in {"-", "+"} THEN Tail(t) ELSE t
      dot == FirstIndex(body, ".")
      ip == IF dot = 0 THEN body ELSE Slice(body, 1, dot - 1)
      fp == IF dot = 0 THEN <<>> ELSE Slice(body, dot + 1, Len(body))
  IN  IF AllDigits(ip) /\ AllDigits(fp) /\ Len(ip) + Len(fp) >= 1
      THEN [ok |-> TRUE, neg |-> neg, coeff |-> NumVal(ip \o fp), exp |-> 0 - Len(fp)]
      ELSE BadDecimal

RECURSIVE Pow10(_)
Pow10(n) == IF n = 0 THEN 1 ELSE 10 * Pow10(n - 1)

\* The value of a Decimal in hundredths (exact for exp >= -2).
Cents(dec) == (IF dec.neg THEN -1 ELSE 1) * dec.coeff * Pow10(dec.exp + 2)

(***************************************************************************)
(* The layout engine's objects. A text line (LTTextLine) is a record       *)
(* [y0, text]; a text box (LTTextBoxHorizontal) is the sequence of its     *)
(* lines, and its get_text() is the concatenation of theirs.               *)
(***************************************************************************)
Line(y, t) == [y0 |-> y, text |-> t]

RECURSIVE get_text(_)
get_text(box) ==
  IF box = <<>> THEN <<>> ELSE box[1].text \o get_text(Tail(box))

LabelledText(l, t) == [label |-> l, text |-> t]

(***************************************************************************)
(* LabelSet: a list of LabelledText.                                       *)
(***************************************************************************)
\* LabelSet.__contains__
HasLabel(items, key) == \E k \in 1..Len(items) : items[k].label = key

\* LabelSet.__getitem__ with a string key: the first entry with that label
\* (the callers test HasLabel first, so KeyError is never raised).
GetLabel(items, key) ==
  items[CHOOSE k \in 1..Len(items) :
          items[k].label = key /\ \A j \in 1..(k - 1) : items[j].label # key]

\* LabelSet.key_set() = ['', 'date', 'price']: the sorted labels are exactly
\* these three, once each.
KeySetIsTextDatePrice(items) ==
  /\ Len(items) = 3
  /\ \A l \in {"", "date", "price"} :
       Cardinality({k \in 1..Len(items) : items[k].label = l}) = 1

(***************************************************************************)
(* Fragment classification.                                                *)
(***************************************************************************)
Rule(pattern, l) == [re |-> pattern, label |-> l]

\* ChaseDetailExtractor.TEXT_CLASSIFIERS, in the dict's (insertion) order.
ChaseTEXT_CLASSIFIERS ==
  << Rule(<<Opt("$"), Opt("-"), Digs, Lit("."), Dig, Dig, Lit("\n")>>, "price"),
     Rule(<<Dig, Dig, Lit("/"), Dig, Dig, Lit("\n")>>, "date") >>

\* AmexDetailExtractor.TEXT_CLASSIFIERS
AmexTEXT_CLASSIFIERS ==
  << Rule(<<Opt("$"), Digs, Lit("."), Dig, Dig, Lit("\n")>>, "price"),
     Rule(<<Dig, Dig, Lit("/"), Dig, Dig, Lit("/"), Dig, Dig, Lit("\n")>>, "date") >>

\* ChaseConverter.REGEXES (chase.py)
REGEXES ==
  << Rule(<<Digs, Lit("."), Dig, Dig>>, "price"),
     Rule(<<Dig, Dig, Lit("/"), Dig, Dig>>, "date") >>

TEXT_CLASSIFIERS(cls) ==
  IF cls = "amex" THEN AmexTEXT_CLASSIFIERS ELSE ChaseTEXT_CLASSIFIERS

\* The lines of c whose text matches the rule, in order.
Matching(rule, c) ==
  LET Test(t) == ReMatch(rule.re, t.text)
  IN  SelectSeq(c, Test)

\* chase.py matches the text with its newlines stripped.
MatchingStripped(rule, c) ==
  LET Test(t) == ReMatch(rule.re, Strip(t.text, {"\n"}))
  IN  SelectSeq(c, Test)

\* Qualifies without the test that something matched.
Qualifies_NoGuard(matches, c) == Len(matches) >= Len(c) - 1

\* The threshold test of BillingDetailExtractorBase._ClassifyTextBox.
Qualifies(matches, c) == Len(matches) # 0 /\ Len(matches) >= Len(c) - 1

\* The threshold test of ChaseConverter._classify_container.
QualifiesConverter(matches, c) == Len(matches) >= Len(c) - 1

\* BillingDetailExtractorBase._ClassifyTextBox, from rule r on.
RECURSIVE ClassifyFrom(_, _, _)
ClassifyFrom(rules, c, r) ==
  IF r > Len(rules) THEN [matches |-> c, label |-> ""]
  ELSE LET matches == Matching(rules[r], c)
       IN  IF Qualifies(matches, c)
           THEN [matches |-> matches, label |-> rules[r].label]
           ELSE ClassifyFrom(rules, c, r + 1)

ClassifyTextBox(rules, c) == ClassifyFrom(rules, c, 1)

\* ChaseConverter._classify_container, from rule r on.
RECURSIVE ClassifyContainerFrom(_, _)
ClassifyContainerFrom(c, r) ==
  IF r > Len(REGEXES) THEN [matches |-> c, label |-> ""]
  ELSE LET matches == MatchingStripped(REGEXES[r], c)
       IN  IF QualifiesConverter(matches, c)
           THEN [matches |-> matches, label |-> REGEXES[r].label]
           ELSE ClassifyContainerFrom(c, r + 1)

classify_container(c) == ClassifyContainerFrom(c, 1)

(***************************************************************************)
(* Row clustering: labelled_lines maps a vertical position to the LabelSet *)
(* of that row. It is a function on Keys; a position the dict does not     *)
(* hold maps to the empty LabelSet (a row the dict holds is never empty).  *)
(***************************************************************************)
\* The accumulated vertical offsets a text box is visited with: two rows
\* NAME_Y_LIMIT apart, and one more just beyond the limit.
Offsets == {0, 2, 3}

\* The local vertical origins of the lines of a text box.
LineYs == {0, 1}

Keys == {o + l : o \in Offsets, l \in LineYs}

MaxKey == CHOOSE k \in Keys : \A j \in Keys : j <= k

NoLines == [k \in Keys |-> <<>>]

\* sorted(self.labelled_lines)
RECURSIVE SortedFrom(_, _)
SortedFrom(ll, k) ==
  IF k > MaxKey THEN <<>>
  ELSE (IF k \in Keys /\ ll[k] # <<>> THEN <<k>> ELSE <<>>) \o SortedFrom(ll, k + 1)

Sorted(ll) == SortedFrom(ll, 0)

\* self.labelled_lines.setdefault(m_y0, LabelSet()).append(entry)
SetDefaultAppend(ll, key, entry) == [ll EXCEPT ![key] = Append(@, entry)]

\* BillingDetailExtractorBase.VisitLTTextBoxHorizontal: the loop over the
\* matches of the classified box.
RECURSIVE InsertMatches(_, _, _, _)
InsertMatches(ll, y0, matches, label) ==
  IF matches = <<>> THEN ll
  ELSE InsertMatches(
         SetDefaultAppend(ll, y0 + matches[1].y0,
                          LabelledText(label, matches[1].text)),
         y0, Tail(matches), label)

BaseVisitLTTextBoxHorizontal(cls, ll, y0, item) ==
  LET r == ClassifyTextBox(TEXT_CLASSIFIERS(cls), item)
  IN  InsertMatches(ll, y0, r.matches, r.label)

(***************************************************************************)
(* The extractors of extract.py. An extractor object is the record         *)
(* [cls, statement_date, account]; its labelled_lines and expenses are the *)
(* variables of those names. An outcome of a method is [raised, ...]:      *)
(* raised names the Python exception that escapes it, "" when none does.   *)
(***************************************************************************)
S_AccountNumber == <<"A", "c", "c", "o", "u", "n", "t", " ", "N", "u", "m", "b", "e", "r", ":", " ">>
S_AccountEnding == <<"A", "c", "c", "o", "u", "n", "t", " ", "E", "n", "d", "i", "n", "g">>
S_AccountActivity == <<"A", "C", "C", "O", "U", "N", "T", " ", "A", "C", "T", "I", "V", "I", "T", "Y">>

\* ChaseDetailExtractor.EXCLUDED_MERCHANTS
EXCLUDED_MERCHANTS ==
  { <<"A", "U", "T", "O", "M", "A", "T", "I", "C", " ", "P", "A", "Y", "M", "E", "N", "T", " ", "-", " ", "T", "H", "A", "N", "K", " ", "Y", "O", "U">> }

\* AmexDetailExtractor.NAME_Y_LIMIT
NAME_Y_LIMIT == 2

\* re.sub('[^\d]', '', item_text.split(':', 1)[1])[-4:]
Last4(item_text) == LastN(OnlyDigits(Split1(item_text, ":")[2]), 4)

\* ChaseDetailExtractor.VisitLTTextBoxHorizontal: the account it leaves.
ChaseVisitAccount(account, item_text) ==
  IF Contains(item_text, S_AccountNumber) THEN Some(Last4(item_text))
  ELSE account

\* AmexDetailExtractor.VisitLTTextBoxHorizontal: the account it leaves;
\* split('-', 1)[1] raises IndexError when the text holds no '-'.
AmexVisitRaises(item_text) ==
  /\ Contains(item_text, S_AccountEnding)
  /\ Len(Split1(Strip(item_text, {"\n"}), "-")) < 2

AmexVisitAccount(account, item_text) ==
  IF Contains(item_text, S_AccountEnding)
  THEN Some(Split1(Strip(item_text, {"\n"}), "-")[2])
  ELSE account

\* self.account or ''
AccountOrEmpty(account) ==
  IF IsNone(account) THEN <<>> ELSE account[1]

Expense(date, merchant, price, account) ==
  [date |-> date, merchant |-> merchant, price |-> price, account |-> account]

Returned == [raised |-> "", emit |-> <<>>]
Raised(e) == [raised |-> e, emit |-> <<>>]
Emitted(exp) == [raised |-> "", emit |-> <<exp>>]

\* AdjustYear without the year-boundary case.
AdjustYear_NoBoundary(year, month, statement_date) == year

\* The year rule shared by the three interpreters: a December transaction
\* of a January statement belongs to the year before.
AdjustYear(year, month, statement_date) ==
  IF month = 12 /\ statement_date.month = 1 THEN year - 1 ELSE year

\* ChaseDetailExtractor.ParseLine
ChaseParseLine(self, items) ==
  IF Len(items) # 3 THEN Returned
  ELSE IF ~KeySetIsTextDatePrice(items) THEN Returned
  ELSE
    LET tt == StrptimeMD(GetLabel(items, "date").text, TRUE)
        date == Datetime(AdjustYear(self.statement_date.year, tt.month,
                                    self.statement_date),
                         tt.month, tt.day)
        merchant == Strip(GetLabel(items, "").text, {"\n"})
        price == Decimal(Strip(GetLabel(items, "price").text, {"\n"}))
    IN  IF ~tt.ok \/ ~date.ok THEN Raised("ValueError")
        ELSE IF ~price.ok THEN Raised("InvalidOperation")
        ELSE IF merchant \in EXCLUDED_MERCHANTS THEN Returned
        ELSE Emitted(Expense(date, merchant, price, AccountOrEmpty(self.account)))

\* items['price'].text[1:]
DropFirst(t) == IF t = <<>> THEN <<>> ELSE Tail(t)

\* The year an Amex record gets: the transaction's own parsed year, with
\* the December/January decrement.
AmexYear(tt, statement_date) == AdjustYear(tt.year, tt.month, statement_date)

\* The price text AmexDetailExtractor.ParseLine hands to Decimal.
AmexPriceText(t) == Strip(DropFirst(t), {"\n"})

\* TooFar with the limit itself taken for an anomaly.
TooFar_AtLimit(next_y0, y0) == next_y0 - y0 >= NAME_Y_LIMIT

\* if next_y0 - y0 > self.NAME_Y_LIMIT
TooFar(next_y0, y0) == next_y0 - y0 > NAME_Y_LIMIT

\* AmexDetailExtractor.ParseLine
AmexParseLine(self, ll, y0s, i, items) ==
  IF ~HasLabel(items, "date") \/ ~HasLabel(items, "price") THEN Returned
  ELSE IF i + 1 > Len(y0s) THEN Raised("IndexError")
  ELSE
    LET next_y0 == y0s[i + 1]
        next_items == ll[next_y0]
        merchant == Strip(next_items[1].text, {"\"", "\n"})
        tt == StrptimeMDY(GetLabel(items, "date").text)
        date == Datetime(AmexYear(tt, self.statement_date), tt.month, tt.day)
        price == Decimal(AmexPriceText(GetLabel(items, "price").text))
    IN  IF TooFar(next_y0, y0s[i]) THEN Returned
        ELSE IF ~tt.ok \/ ~date.ok THEN Raised("ValueError")
        ELSE IF ~price.ok THEN Raised("InvalidOperation")
        ELSE Emitted(Expense(date, merchant, price, AccountOrEmpty(self.account)))

ParseLineOf(self, ll, y0s, i) ==
  IF self.cls = "amex" THEN AmexParseLine(self, ll, y0s, i, ll[y0s[i]])
  ELSE ChaseParseLine(self, ll[y0s[i]])

(***************************************************************************)
(* The inputs: line texts, text boxes and documents.                       *)
(***************************************************************************)
T_AMEX_DEC == <<"1", "2", "/", "0", "5", "/", "2", "3", "\n">>
T_AMEX_MAR == <<"0", "3", "/", "1", "4", "/", "2", "4", "\n">>
T_AMEX_BAD == <<"1", "3", "/", "4", "5", "/", "9", "9", "\n">>
T_USD == <<"$", "1", "2", ".", "3", "4", "\n">>
T_RAW == <<"1", "2", ".", "3", "4", "\n">>
T_QUOTED == <<"\"", "A", "B", "\"", "\n">>
T_AMEX_ACCT == <<"A", "c", "c", "o", "u", "n", "t", " ", "E", "n", "d", "i", "n", "g", " ", "3", "-", "1", "2", "3", "4", "5", "\n">>
T_DEC == <<"1", "2", "/", "0", "5", "\n">>
T_MAR == <<"0", "3", "/", "1", "4", "\n">>
T_PRICE == <<"4", ".", "5", "0", "\n">>
T_COFFEE == <<"C", "O", "F", "F", "E", "E", " ", "S", "H", "O", "P", "\n">>
T_PAYMENT == <<"A", "U", "T", "O", "M", "A", "T", "I", "C", " ", "P", "A", "Y", "M", "E", "N", "T", " ", "-", " ", "T", "H", "A", "N", "K", " ", "Y", "O", "U", "\n">>
T_HEADER == <<"A", "C", "C", "O", "U", "N", "T", " ", "A", "C", "T", "I", "V", "I", "T", "Y", "\n">>
T_ACCT == <<"A", "c", "c", "o", "u", "n", "t", " ", "N", "u", "m", "b", "e", "r", ":", " ", "X", "X", "X", "X", "-", "1", "2", "3", "4", "\n">>

\* The text boxes of a price-then-merchant (Amex) statement.
AmexBoxes ==
  { <<Line(0, T_AMEX_DEC)>>, <<Line(0, T_AMEX_MAR)>>, <<Line(0, T_AMEX_BAD)>>,
    <<Line(0, T_USD)>>, <<Line(0, T_RAW)>>, <<Line(0, T_QUOTED)>>,
    <<Line(0, T_AMEX_ACCT)>>,
    <<Line(0, T_AMEX_DEC), Line(1, T_QUOTED)>> }

\* The text boxes of a simple-inline (Chase) statement.
ChaseBoxes ==
  { <<Line(0, T_PRICE)>>, <<Line(0, T_COFFEE)>>,
    <<Line(0, T_HEADER)>>,
    <<Line(0, T_HEADER), Line(1, T_ACCT)>>,
    <<Line(0, T_PAYMENT), Line(1, T_COFFEE)>>,
    <<Line(0, T_DEC), Line(1, T_MAR)>> }

Boxes(content) == IF content = "amex" THEN AmexBoxes ELSE ChaseBoxes

\* The offsets the boxes of a statement are visited with: the rows of a
\* simple-inline statement are read one by one, without a distance test.
OffsetsOf(content) == IF content = "amex" THEN Offsets ELSE {0, 1}

F_AMEX == <<"S", "t", "a", "t", "e", "m", "e", "n", "t", "_", "J", "a", "n", " ", "2", "0", "2", "4", ".", "p", "d", "f">>
F_CHASE == <<"2", "0", "2", "4", "-", "0", "1", "-", "1", "5", "-", "s", "t", "a", "t", "e", "m", "e", "n", "t", "s", "-", "1", "2", "3", "4", ".", "p", "d", "f">>
F_CHASE_APR == <<"2", "0", "2", "3", "-", "0", "4", "-", "1", "5", "-", "s", "t", "a", "t", "e", "m", "e", "n", "t", "s", "-", "1", "2", "3", "4", ".", "p", "d", "f">>
F_LOCKED == <<"2", "0", "2", "4", "-", "0", "2", "-", "1", "5", "-", "s", "t", "a", "t", "e", "m", "e", "n", "t", "s", "-", "1", "2", "3", "4", ".", "p", "d", "f">>
F_OTHER == <<"s", "t", "a", "t", "e", "m", "e", "n", "t", ".", "p", "d", "f">>

Document(n, e, c) == [name |-> n, is_extractable |-> e, content |-> c]

\* The documents a run may be given: their base names, whether the layout
\* engine can extract them, and the statement format of their pages.
Documents ==
  << Document(F_AMEX, TRUE, "amex"),
     Document(F_CHASE, TRUE, "chase"),
     Document(F_OTHER, TRUE, "amex"),
     Document(F_LOCKED, FALSE, "chase"),
     Document(F_CHASE_APR, TRUE, "chase") >>

(***************************************************************************)
(* extract.py: EXTRACTORS and the selection loop of Main.                  *)
(***************************************************************************)
\* EXTRACTORS, in the dict's order: the file-name pattern, the extractor
\* class, and where the pattern's group 'date' lies in a matching name.
EXTRACTORS ==
  << [re |-> LitSeq(<<"S", "t", "a", "t", "e", "m", "e", "n", "t", "_">>)
             \o <<Alpha, Alpha, Alpha, Lit(" "), Dig, Dig, Dig, Dig,
                  AnyChar, Lit("p"), Lit("d"), Lit("f")>>,
      cls |-> "amex", from |-> 11, to |-> 18],
     [re |-> <<Dig, Dig, Dig, Dig, Lit("-"), Dig, Dig, Lit("-"), Dig, Dig>>
             \o LitSeq(<<"-", "s", "t", "a", "t", "e", "m", "e", "n", "t", "s", "-">>)
             \o <<Dig, Dig, Dig, Dig, AnyChar, Lit("p"), Lit("d"), Lit("f")>>,
      cls |-> "chase", from |-> 1, to |-> 10] >>

NoDate == [year |-> 0, month |-> 0, day |-> 0]

\* The local variable extractor of Main before its first assignment.
Unbound == [cls |-> "unbound", statement_date |-> NoDate, account |-> None]

\* AmexDetailExtractor.__init__ / ChaseDetailExtractor.__init__
NewExtractor(cls, date_text) ==
  LET d == IF cls = "amex" THEN StrptimeBY(date_text) ELSE StrptimeYMD(date_text)
  IN  [ok |-> d.ok,
       obj |-> [cls |-> cls,
                statement_date |-> [year |-> d.year, month |-> d.month, day |-> d.day],
                account |-> None]]

\* for file_re, extractor_cls in EXTRACTORS.items(): from entry r on, with
\* cur the value of extractor so far. made says whether an extractor was
\* constructed in this loop.
RECURSIVE SelectFrom(_, _, _, _)
SelectFrom(name, r, cur, made) ==
  IF r > Len(EXTRACTORS) THEN [raised |-> "", extractor |-> cur, made |-> made]
  ELSE IF ReMatch(EXTRACTORS[r].re, name)
  THEN LET new == NewExtractor(EXTRACTORS[r].cls,
                               Slice(name, EXTRACTORS[r].from, EXTRACTORS[r].to))
       IN  IF new.ok THEN SelectFrom(name, r + 1, new.obj, TRUE)
           ELSE [raised |-> "ValueError", extractor |-> cur, made |-> made]
  ELSE SelectFrom(name, r + 1, cur, made)

\* sorted(expenses, key=lambda e: e.date): a stable sort by date.
DateLess(a, b) ==
  \/ a.year < b.year
  \/ a.year = b.year /\ a.month < b.month
  \/ a.year = b.year /\ a.month = b.month /\ a.day < b.day

RECURSIVE InsertSorted(_, _)
InsertSorted(sorted, e) ==
  IF sorted = <<>> THEN <<e>>
  ELSE IF DateLess(e.date, sorted[1].date) THEN <<e>> \o sorted
  ELSE <<sorted[1]>> \o InsertSorted(Tail(sorted), e)

RECURSIVE SortedByDate(_)
SortedByDate(es) ==
  IF es = <<>> THEN <<>>
  ELSE InsertSorted(SortedByDate(Slice(es, 1, Len(es) - 1)), es[Len(es)])

(***************************************************************************)
(* chase.py: ChaseConverter.                                               *)
(***************************************************************************)
S_statements == <<"-", "s", "t", "a", "t", "e", "m", "e", "n", "t", "s">>

\* s.split(sub, 1)[0]
BeforeSub(s, sub) ==
  IF Contains(s, sub)
  THEN LET k == CHOOSE k \in 1..Len(s) :
                  /\ k + Len(sub) - 1 <= Len(s)
                  /\ SubSeq(s, k, k + Len(sub) - 1) = sub
                  /\ \A j \in 1..(k - 1) :
                       j + Len(sub) - 1 > Len(s) \/ SubSeq(s, j, j + Len(sub) - 1) # sub
       IN  Slice(s, 1, k - 1)
  ELSE s

\* line_dict[statement_type] = text: a dict keeps a key's first position
\* and its last value.
DictSet(d, label, text) ==
  IF HasLabel(d, label)
  THEN [k \in 1..Len(d) |->
          IF d[k].label = label THEN LabelledText(label, text) ELSE d[k]]
  ELSE Append(d, LabelledText(label, text))

\* process_item: the loop over the matches of a classified text box.
RECURSIVE InsertItems(_, _, _, _)
InsertItems(its, y0, matches, label) ==
  IF matches = <<>> THEN its
  ELSE InsertItems(
         [its EXCEPT ![y0 + matches[1].y0] =
            DictSet(@, label, Strip(matches[1].text, {"\n"}))],
         y0, Tail(matches), label)

\* process_item, the LTText part, on one text: the header and the account
\* of the converter after it. header is a flag (the code keeps the item).
SeeText(dev, item_text) ==
  [dev EXCEPT
     !.header = @ \/ Contains(item_text, S_AccountActivity),
     !.account_last4 = IF Contains(item_text, S_AccountNumber)
                       THEN Some(Last4(item_text)) ELSE @]

\* process_item recursing into the lines of a text box: each line is an
\* LTText too.
RECURSIVE SeeLines(_, _)
SeeLines(dev, lines) ==
  IF lines = <<>> THEN dev
  ELSE SeeLines(SeeText(dev, lines[1].text), Tail(lines))

\* One row of the loop of ChaseConverter.receive_layout. Reading
\* self.account_last4 raises AttributeError when no account marker has set
\* the attribute: __init__ does not.
ConverterRow(dev, row) ==
  IF \/ Len(row) # 3
     \/ ~HasLabel(row, "price") \/ ~HasLabel(row, "date") \/ ~HasLabel(row, "")
  THEN Returned
  ELSE
    LET tt == StrptimeMD(GetLabel(row, "date").text, FALSE)
        date == Datetime(AdjustYear(dev.statement_date.year, tt.month,
                                    dev.statement_date),
                         tt.month, tt.day)
        price == Decimal(GetLabel(row, "price").text)
    IN  IF ~tt.ok \/ ~date.ok THEN Raised("ValueError")
        ELSE IF ~price.ok THEN Raised("InvalidOperation")
        ELSE IF IsNone(dev.account_last4) THEN Raised("AttributeError")
        ELSE Emitted(Expense(date, GetLabel(row, "").text, price,
                             dev.account_last4[1]))

(***************************************************************************)
(* The state.                                                              *)
(***************************************************************************)
VARIABLES
  program,         \* the script that runs: "extract.py" or "chase.py"
  pc,              \* where the run is
  args,            \* args.statement: indices into Documents
  st,              \* the position of Main's loop in args
  extractor,       \* extract.py: Main's local extractor
  labelled_lines,  \* extract.py: extractor.labelled_lines
  device,          \* chase.py: the ChaseConverter of _ProcessDoc
  items,           \* chase.py: device.items
  expenses,        \* extractor.expenses / device.expenses
  doc_expenses,    \* extract.py: the local expenses of _ProcessDoc
  all_expenses,    \* Main's local expenses
  csv,             \* the rows written to the CSV file
  i,               \* the position of the row loop, 1-based
  raised,          \* the exception that ended the run, "" when none
  npages,          \* pages of the current document so far
  nboxes,          \* text boxes visited so far
  box,             \* classifier alone: the text box handed to it
  result           \* classifier alone: what it returned

vars == <<program, pc, args, st, extractor, labelled_lines, device, items,
          expenses, doc_expenses, all_expenses, csv, i, raised, npages, nboxes,
          box, result>>

NoDevice == [statement_date |-> NoDate, header |-> FALSE, account_last4 |-> None]

RECURSIVE SeqsUpTo(_, _)
SeqsUpTo(S, n) ==
  IF n = 0 THEN {<<>>}
  ELSE LET shorter == SeqsUpTo(S, n - 1)
       IN  shorter \cup {Append(q, x) : q \in shorter, x \in S}

\* The classifier has not run.
NoResult == [matches |-> <<>>, label |-> "none"]

\* nargs='+': at least one statement.
ArgLists == SeqsUpTo(1..4, MaxDocs) \ {<<>>}

\* The state when Main starts script prog on the statements a.
Start(prog, a) ==
  /\ program = prog
  /\ pc = "main"
  /\ args = a
  /\ st = 1
  /\ extractor = Unbound
  /\ labelled_lines = NoLines
  /\ device = NoDevice
  /\ items = NoLines
  /\ expenses = <<>>
  /\ doc_expenses = <<>>
  /\ all_expenses = <<>>
  /\ csv = <<>>
  /\ i = 0
  /\ raised = ""
  /\ npages = 0
  /\ nboxes = 0
  /\ box = <<>>
  /\ result = NoResult

\* extract.py on any statements.
Init == \E a \in ArgLists : Start("extract.py", a)

\* chase.py on any statements.
InitConverter == \E a \in ArgLists : Start("chase.py", a)

\* extract.py on one price-then-merchant statement.
InitAmex == Start("extract.py", <<1>>)

\* Either script on one simple-inline statement, of January or of April.
InitInline == \E prog \in {"extract.py", "chase.py"} : \E a \in {<<2>>, <<5>>} : Start(prog, a)

doc == Documents[args[st]]

\* An uncaught exception ends the run.
Crash(e) == pc' = "crashed" /\ raised' = e

(***************************************************************************)
(* Main of both scripts: the loop over args.statement.                     *)
(***************************************************************************)
\* if not doc.is_extractable: log and continue (the same in both scripts).
MainNotExtractable ==
  /\ pc = "main" /\ st <= Len(args)
  /\ ~doc.is_extractable
  /\ st' = st + 1
  /\ UNCHANGED <<box, result, program, pc, args, extractor, labelled_lines, device, items,
                 expenses, doc_expenses, all_expenses, csv, i, raised,
                 npages, nboxes>>

\* extract.py Main: the loop over EXTRACTORS, then the call of _ProcessDoc
\* up to its page loop. Reading the local extractor before any pattern has
\* matched raises UnboundLocalError; a constructor resets its extractor.
MainProcessDoc ==
  /\ program = "extract.py"
  /\ pc = "main" /\ st <= Len(args)
  /\ doc.is_extractable
  /\ LET sel == SelectFrom(doc.name, 1, extractor, FALSE)
     IN  IF sel.raised # ""
         THEN /\ Crash(sel.raised)
              /\ UNCHANGED <<extractor, labelled_lines, expenses, doc_expenses, npages>>
         ELSE IF sel.extractor.cls = "unbound"
         THEN /\ Crash("UnboundLocalError")
              /\ UNCHANGED <<extractor, labelled_lines, expenses, doc_expenses, npages>>
         ELSE /\ extractor' = sel.extractor
              /\ labelled_lines' = IF sel.made THEN NoLines ELSE labelled_lines
              /\ expenses' = IF sel.made THEN <<>> ELSE expenses
              /\ doc_expenses' = <<>>
              /\ npages' = 0
              /\ pc' = "pages"
              /\ UNCHANGED raised
  /\ UNCHANGED <<box, result, program, args, st, device, items, all_expenses, csv, i, nboxes>>

\* _ProcessDoc, one turn of the page loop: extractor.Reset(), then the
\* layout engine starts to deliver the page.
Reset ==
  /\ program = "extract.py"
  /\ pc = "pages" /\ npages < MaxPages
  /\ labelled_lines' = NoLines
  /\ expenses' = <<>>
  /\ npages' = npages + 1
  /\ pc' = "visit"
  /\ UNCHANGED <<box, result, program, args, st, extractor, device, items, doc_expenses,
                 all_expenses, csv, i, raised, nboxes>>

\* LayoutVisitorDriver.visit_layout reaching a text box at accumulated
\* offset y0: {Amex,Chase}DetailExtractor.VisitLTTextBoxHorizontal.
VisitLTTextBoxHorizontal(y0, item) ==
  /\ program = "extract.py"
  /\ pc = "visit" /\ nboxes < MaxBoxes
  /\ nboxes' = nboxes + 1
  /\ LET item_text == get_text(item)
     IN  IF extractor.cls = "amex" /\ AmexVisitRaises(item_text)
         THEN /\ Crash("IndexError")
              /\ UNCHANGED <<extractor, labelled_lines>>
         ELSE /\ extractor' =
                   [extractor EXCEPT !.account =
                      IF extractor.cls = "amex"
                      THEN AmexVisitAccount(@, item_text)
                      ELSE ChaseVisitAccount(@, item_text)]
              /\ labelled_lines' =
                   BaseVisitLTTextBoxHorizontal(extractor.cls, labelled_lines, y0, item)
              /\ UNCHANGED <<pc, raised>>
  /\ UNCHANGED <<box, result, program, args, st, device, items, expenses, doc_expenses,
                 all_expenses, csv, i, npages>>

\* The page is delivered: ParseLines sorts the positions and starts its loop.
ParseLines ==
  /\ program = "extract.py"
  /\ pc = "visit"
  /\ i' = 1
  /\ pc' = "parse"
  /\ UNCHANGED <<box, result, program, args, st, extractor, labelled_lines, device, items,
                 expenses, doc_expenses, all_expenses, csv, raised, npages, nboxes>>

\* One turn of the loop of ParseLines: self.ParseLine(y0s, i, y0, items).
ParseLine ==
  /\ program = "extract.py"
  /\ pc = "parse" /\ i <= Len(Sorted(labelled_lines))
  /\ LET r == ParseLineOf(extractor, labelled_lines, Sorted(labelled_lines), i)
     IN  IF r.raised # ""
         THEN Crash(r.raised) /\ UNCHANGED <<expenses, i>>
         ELSE /\ expenses' = expenses \o r.emit
              /\ i' = i + 1
              /\ UNCHANGED <<pc, raised>>
  /\ UNCHANGED <<box, result, program, args, st, extractor, labelled_lines, device, items,
                 doc_expenses, all_expenses, csv, npages, nboxes>>

\* ParseLines returns: expenses.extend(extractor.expenses).
PageDone ==
  /\ program = "extract.py"
  /\ pc = "parse" /\ i > Len(Sorted(labelled_lines))
  /\ doc_expenses' = doc_expenses \o expenses
  /\ pc' = "pages"
  /\ UNCHANGED <<box, result, program, args, st, extractor, labelled_lines, device, items,
                 expenses, all_expenses, csv, i, raised, npages, nboxes>>

\* _ProcessDoc returns after the last page: Main extends its expenses and
\* goes on to the next statement.
ProcessDocReturn ==
  /\ program = "extract.py"
  /\ pc = "pages"
  /\ all_expenses' = all_expenses \o doc_expenses
  /\ st' = st + 1
  /\ pc' = "main"
  /\ UNCHANGED <<box, result, program, args, extractor, labelled_lines, device, items,
                 expenses, doc_expenses, csv, i, raised, npages, nboxes>>

\* After the loop: the rows are written sorted by date (both scripts).
MainWrite ==
  /\ pc = "main" /\ st > Len(args)
  /\ csv' = SortedByDate(all_expenses)
  /\ pc' = "done"
  /\ UNCHANGED <<box, result, program, args, st, extractor, labelled_lines, device, items,
                 expenses, doc_expenses, all_expenses, i, raised, npages, nboxes>>

(***************************************************************************)
(* chase.py.                                                               *)
(***************************************************************************)
\* chase.py Main: the statement date from the file name, then _ProcessDoc
\* up to its page loop, with a new ChaseConverter.
ConverterProcessDoc ==
  /\ program = "chase.py"
  /\ pc = "main" /\ st <= Len(args)
  /\ doc.is_extractable
  /\ LET d == StrptimeYMD(BeforeSub(doc.name, S_statements))
     IN  IF ~d.ok
         THEN Crash("ValueError") /\ UNCHANGED <<device, items, expenses, npages>>
         ELSE /\ device' = [statement_date |-> [year |-> d.year, month |-> d.month, day |-> d.day],
                            header |-> FALSE, account_last4 |-> None]
              /\ items' = NoLines
              /\ expenses' = <<>>
              /\ npages' = 0
              /\ pc' = "pages"
              /\ UNCHANGED raised
  /\ UNCHANGED <<box, result, program, args, st, extractor, labelled_lines, doc_expenses,
                 all_expenses, csv, i, nboxes>>

\* ChaseConverter.receive_layout, its first lines: the page's rows and the
\* header are forgotten, then process_item walks the page.
receive_layout ==
  /\ program = "chase.py"
  /\ pc = "pages" /\ npages < MaxPages
  /\ items' = NoLines
  /\ device' = [device EXCEPT !.header = FALSE]
  /\ npages' = npages + 1
  /\ pc' = "visit"
  /\ UNCHANGED <<box, result, program, args, st, extractor, labelled_lines, expenses,
                 doc_expenses, all_expenses, csv, i, raised, nboxes>>

\* ChaseConverter.process_item on a text box at accumulated offset y0, with
\* its recursion into the box's lines.
process_item(y0, item) ==
  /\ program = "chase.py"
  /\ pc = "visit" /\ nboxes < MaxBoxes + 1
  /\ nboxes' = nboxes + 1
  /\ LET r == classify_container(item)
     IN  /\ items' = InsertItems(items, y0, r.matches, r.label)
         /\ device' = SeeLines(SeeText(device, get_text(item)), item)
  /\ UNCHANGED <<box, result, program, pc, args, st, extractor, labelled_lines, expenses,
                 doc_expenses, all_expenses, csv, i, raised, npages>>

\* receive_layout after the walk: a page without the header yields nothing;
\* otherwise the loop over the sorted rows starts.
ConverterScan ==
  /\ program = "chase.py"
  /\ pc = "visit"
  /\ IF ~device.header
     THEN pc' = "pages" /\ UNCHANGED i
     ELSE pc' = "parse" /\ i' = 1
  /\ UNCHANGED <<box, result, program, args, st, extractor, labelled_lines, device, items,
                 expenses, doc_expenses, all_expenses, csv, raised, npages, nboxes>>

\* One turn of the row loop of receive_layout.
ConverterParseRow ==
  /\ program = "chase.py"
  /\ pc = "parse" /\ i <= Len(Sorted(items))
  /\ LET r == ConverterRow(device, items[Sorted(items)[i]])
     IN  IF r.raised # ""
         THEN Crash(r.raised) /\ UNCHANGED <<expenses, i>>
         ELSE /\ expenses' = expenses \o r.emit
              /\ i' = i + 1
              /\ UNCHANGED <<pc, raised>>
  /\ UNCHANGED <<box, result, program, args, st, extractor, labelled_lines, device, items,
                 doc_expenses, all_expenses, csv, npages, nboxes>>

\* receive_layout returns.
ConverterPageDone ==
  /\ program = "chase.py"
  /\ pc = "parse" /\ i > Len(Sorted(items))
  /\ pc' = "pages"
  /\ UNCHANGED <<box, result, program, args, st, extractor, labelled_lines, device, items,
                 expenses, doc_expenses, all_expenses, csv, i, raised, npages, nboxes>>

\* chase.py _ProcessDoc after the last page: its log line reads
\* device.account_last4, then Main extends its expenses.
ConverterDocReturn ==
  /\ program = "chase.py"
  /\ pc = "pages"
  /\ IF IsNone(device.account_last4)
     THEN Crash("AttributeError") /\ UNCHANGED <<all_expenses, st>>
     ELSE /\ all_expenses' = all_expenses \o expenses
          /\ st' = st + 1
          /\ pc' = "main"
          /\ UNCHANGED raised
  /\ UNCHANGED <<box, result, program, args, extractor, labelled_lines, device, items,
                 expenses, doc_expenses, csv, i, npages, nboxes>>

ExtractNext ==
  \/ MainProcessDoc
  \/ Reset
  \/ /\ pc = "visit"
     /\ \E y0 \in OffsetsOf(doc.content) : \E item \in Boxes(doc.content) :
          VisitLTTextBoxHorizontal(y0, item)
  \/ ParseLines
  \/ ParseLine
  \/ PageDone
  \/ ProcessDocReturn

ConverterNext ==
  \/ ConverterProcessDoc
  \/ receive_layout
  \/ /\ pc = "visit"
     /\ \E y0 \in OffsetsOf(doc.content) : \E item \in Boxes(doc.content) :
          process_item(y0, item)
  \/ ConverterScan
  \/ ConverterParseRow
  \/ ConverterPageDone
  \/ ConverterDocReturn

(***************************************************************************)
(* The classifiers alone: a text box of up to MaxFragments lines is handed *)
(* to _ClassifyTextBox of an Amex or a Chase extractor (extract.py) or to  *)
(* _classify_container (chase.py).                                         *)
(***************************************************************************)
FragmentTexts == {T_PRICE, T_DEC, T_AMEX_DEC, T_COFFEE}

\* The text boxes of 1..n lines over FragmentTexts; line k lies at k - 1.
RECURSIVE Containers(_)
Containers(n) ==
  IF n = 0 THEN {}
  ELSE LET shorter == Containers(n - 1)
       IN  {<<Line(0, t)>> : t \in FragmentTexts}
           \cup shorter
           \cup {Append(c, Line(Len(c), t)) : c \in shorter, t \in FragmentTexts}

InitClassify ==
  /\ program \in {"extract.py", "chase.py"}
  /\ pc = "classify"
  /\ args = <<>>
  /\ st = 1
  /\ extractor \in {[Unbound EXCEPT !.cls = c] : c \in {"amex", "chase"}}
  /\ labelled_lines = NoLines
  /\ device = NoDevice
  /\ items = NoLines
  /\ expenses = <<>>
  /\ doc_expenses = <<>>
  /\ all_expenses = <<>>
  /\ csv = <<>>
  /\ i = 0
  /\ raised = ""
  /\ npages = 0
  /\ nboxes = 0
  /\ box \in Containers(MaxFragments)
  /\ result = NoResult

\* matches, label = self._ClassifyTextBox(item)
ClassifyTextBoxCall ==
  /\ program = "extract.py"
  /\ pc = "classify"
  /\ result' = ClassifyTextBox(TEXT_CLASSIFIERS(extractor.cls), box)
  /\ pc' = "classified"
  /\ UNCHANGED <<box, program, args, st, extractor, labelled_lines, device,
                 items, expenses, doc_expenses, all_expenses, csv, i, raised,
                 npages, nboxes>>

\* matches, statement_type = self._classify_container(item)
ClassifyContainerCall ==
  /\ program = "chase.py"
  /\ pc = "classify"
  /\ result' = classify_container(box)
  /\ pc' = "classified"
  /\ UNCHANGED <<box, program, args, st, extractor, labelled_lines, device,
                 items, expenses, doc_expenses, all_expenses, csv, i, raised,
                 npages, nboxes>>

\* the classifiers alone
SpecClassify ==
  InitClassify /\ [][ClassifyTextBoxCall \/ ClassifyContainerCall]_vars

\* A run whose statements are all extractable.
DocNext == ExtractNext \/ MainWrite

Next == MainNotExtractable \/ DocNext

NextConverter == MainNotExtractable \/ MainWrite \/ ConverterNext

\* extract.py
Spec == Init /\ [][Next]_vars

\* chase.py
SpecConverter == InitConverter /\ [][NextConverter]_vars

\* extract.py on one Amex statement
SpecAmex == InitAmex /\ [][DocNext]_vars

\* the simple-inline interpreters of both scripts on one Chase statement
SpecInline == InitInline /\ [][DocNext \/ ConverterNext]_vars

(***************************************************************************)
(* The claims.                                                             *)
(***************************************************************************)
\* The row the row loop is at, and whether this step is a turn of the loop
\* that appended a record.
RowAt == IF program = "extract.py"
         THEN labelled_lines[Sorted(labelled_lines)[i]]
         ELSE items[Sorted(items)[i]]

Emits == pc = "parse" /\ Len(expenses') = Len(expenses) + 1

Emitted1 == expenses'[Len(expenses')]

Records == expenses \o doc_expenses \o all_expenses \o csv

\* The statement period a Chase file name states: YYYY-MM-...
ChasePeriodYear == NumVal(SubSeq(doc.name, 1, 4))
ChasePeriodMonth == NumVal(SubSeq(doc.name, 6, 7))

\* C1: simple-inline variant (ChaseDetailExtractor.ParseLine of extract.py
\* and ChaseConverter.receive_layout of chase.py): the record a row yields
\* has the month and day of the row's MM/DD text; its year is the statement
\* period's year less one when the transaction month is December and the
\* statement month is January, and the statement period's year otherwise.
C1_InlineYear ==
  [][Emits =>
       LET text == GetLabel(RowAt, "date").text
           m == NumVal(SubSeq(text, 1, 2))
           d == NumVal(SubSeq(text, 4, 5))
       IN  /\ Emitted1.date.month = m
           /\ Emitted1.date.day = d
           /\ Emitted1.date.year =
                IF m = 12 /\ ChasePeriodMonth = 1
                THEN ChasePeriodYear - 1 ELSE ChasePeriodYear]_vars

\* C1's case: chase.py has emitted the record of a December row of the
\* January 2024 statement, dated 2023.
C1_Witness ==
  /\ program = "chase.py" /\ pc = "parse"
  /\ device.statement_date.month = 1
  /\ \E k \in 1..Len(expenses) :
       expenses[k].date.month = 12 /\ expenses[k].date.year = 2023

\* The statement period the Amex file name states: Statement_Mon YYYY.pdf
AmexPeriodYear == NumVal(SubSeq(doc.name, 15, 18))
AmexPeriodMonth == MonthAbbr(SubSeq(doc.name, 11, 13))

\* C2: price-then-merchant variant: a record whose transaction month is
\* December while the statement period month is January has the year
\* (statement period year - 1), whatever year its MM/DD/YY text carries.
C2_AmexYear ==
  (program = "extract.py" /\ extractor.cls = "amex" /\ pc = "parse") =>
    \A k \in 1..Len(expenses) :
      (expenses[k].date.month = 12 /\ AmexPeriodMonth = 1) =>
        expenses[k].date.year = AmexPeriodYear - 1

\* The price text with only a leading currency symbol and the trailing
\* newline removed.
PriceDigits(text) ==
  Strip(IF text # <<>> /\ text[1] = "$" THEN Tail(text) ELSE text, {"\n"})

\* C3: price-then-merchant variant: the amount of the record a row yields is
\* the exact decimal value of the row's price text with only a leading
\* currency symbol (if there is one) and the trailing newline removed.
C3_AmexAmount ==
  [][(program = "extract.py" /\ extractor.cls = "amex" /\ Emits) =>
       LET want == Decimal(PriceDigits(GetLabel(RowAt, "price").text))
       IN  want.ok /\ Emitted1.price.ok /\ Cents(Emitted1.price) = Cents(want)]_vars

NoPatternMatches(name) ==
  \A r \in 1..Len(EXTRACTORS) : ~ReMatch(EXTRACTORS[r].re, name)

\* C5: Statement Driver (extract.py): a document whose file name matches no
\* known pattern is skipped: it is never interpreted (in particular not
\* with the interpreter selected for an earlier document) and so
\* contributes no record.
C5_NoMatchSkipped ==
  (program = "extract.py" /\ pc \in {"pages", "visit", "parse"}) =>
    ~NoPatternMatches(doc.name)

\* C6: inline variant (both scripts): no record of the output has a
\* merchant text that, trimmed, is an entry of the exclusion list.
C6_Excluded ==
  \A k \in 1..Len(Records) :
    Strip(Records[k].merchant, {"\n", " "}) \notin EXCLUDED_MERCHANTS

\* The account discovered so far in the document, '' when none.
AccountSoFar ==
  IF program = "extract.py" THEN AccountOrEmpty(extractor.account)
  ELSE AccountOrEmpty(device.account_last4)

\* C7: a record's account is the account identifier discovered so far in
\* its document, the empty string when none was; emitting a record before
\* any account marker was seen does not fail.
C7_Account ==
  /\ raised # "AttributeError"
  /\ pc = "parse" => \A k \in 1..Len(expenses) : expenses[k].account = AccountSoFar

\* Every date text of the page is a calendar date and every price text a
\* decimal number, as the row loop of the extractor parses them.
PageParseable ==
  \A k \in Keys : \A j \in 1..Len(labelled_lines[k]) :
    LET e == labelled_lines[k][j]
    IN  /\ e.label = "date" =>
             IF extractor.cls = "amex" THEN StrptimeMDY(e.text).ok
             ELSE StrptimeMD(e.text, TRUE).ok
        /\ e.label = "price" =>
             IF extractor.cls = "amex" THEN Decimal(AmexPriceText(e.text)).ok
             ELSE Decimal(Strip(e.text, {"\n"})).ok

\* C8: per-page row scan of extract.py: on a page whose date and price
\* texts are parseable no row ends the scan with an exception (the loop
\* visits every row and reaches its end), a last row that holds a date and a
\* price included.
C8_ScanEnds ==
  (program = "extract.py" /\ pc = "crashed" /\ i >= 1
     /\ raised \in {"IndexError", "ValueError", "InvalidOperation"}) =>
    ~PageParseable

NoLabelTwice(row) ==
  \A a, b \in 1..Len(row) : row[a].label = row[b].label => a = b

\* C9: Row Clusterer (both scripts): every row holds each label at most
\* once (a fragment whose label the row already holds overwrites the entry).
C9_LabelOnce ==
  \A k \in Keys : NoLabelTwice(labelled_lines[k]) /\ NoLabelTwice(items[k])

\* The rules the classifier under check uses, and whether a line matches one.
RulesInUse ==
  IF program = "chase.py" THEN REGEXES ELSE TEXT_CLASSIFIERS(extractor.cls)

Hit(rule, line) ==
  ReMatch(rule.re,
          IF program = "chase.py" THEN Strip(line.text, {"\n"}) ELSE line.text)

HitCount(rule) == Cardinality({k \in 1..Len(box) : Hit(rule, box[k])})

\* result is the lines of box that match the rule, in order, under its label.
ResultIs(rule) ==
  /\ result.label = rule.label
  /\ Len(result.matches) = HitCount(rule)
  /\ \A k \in 1..Len(box) :
       Hit(rule, box[k]) <=> \E j \in 1..Len(result.matches) : result.matches[j] = box[k]
  /\ \A a, b \in 1..Len(result.matches) :
       a < b => result.matches[a].y0 < result.matches[b].y0

\* result is that of the first rule that matches at least n - 1 of the n
\* lines of box and at least `least` of them; the whole box under "" when
\* there is no such rule.
FirstRuleResult(least) ==
  LET Reaches(r) == /\ HitCount(RulesInUse[r]) >= Len(box) - 1
                    /\ HitCount(RulesInUse[r]) >= least
      reaching == {r \in 1..Len(RulesInUse) : Reaches(r)}
  IN  IF reaching = {} THEN result = [matches |-> box, label |-> ""]
      ELSE ResultIs(RulesInUse[CHOOSE r \in reaching : \A q \in reaching : r <= q])

\* C10: Fragment Classifier: the result is (matching subset, label) of the
\* first rule in order that matches at least n - 1 of the n fragments, and
\* the whole group under "" when no rule does.
C10_AllButOne ==
  pc = "classified" => FirstRuleResult(0)

\* C10 as amended: in _ClassifyTextBox of extract.py the rule must also
\* match at least one fragment; _classify_container of chase.py applies the
\* n - 1 threshold alone.
C10_AllButOneAndOne ==
  pc = "classified" => FirstRuleResult(IF program = "extract.py" THEN 1 ELSE 0)

\* C10's case: _ClassifyTextBox was handed one fragment that no rule
\* matches and returned it under "".
C10_Witness ==
  /\ program = "extract.py" /\ pc = "classified"
  /\ Len(box) = 1 /\ HitCount(RulesInUse[1]) = 0 /\ HitCount(RulesInUse[2]) = 0
  /\ result = [matches |-> box, label |-> ""]

====
